---- MODULE Spec2Model ----
(***************************************************************************)
(* Resilient connector and ingestion supervision of nyc-urban-intelligence *)
(*   BaseConnector          src/unnamed/part_001                           *)
(*   DataIngestionService   src/src/pipeline/ingestion/DataIngestionService.js *)
(*   MessageQueue           src/src/pipeline/ingestion/MessageQueue.js     *)
(*                                                                         *)
(* Node's single thread runs one callback at a time, so every action below *)
(* is one callback (an API call, a timer firing, a fetch settling) run to  *)
(* completion, listeners included: emit() calls its listeners              *)
(* synchronously.  Handlers are written as functions from the whole        *)
(* program state (a record "w") to the program state.                      *)
(***************************************************************************)
EXTENDS Integers, Sequences, FiniteSets, TLC

VARIABLES
    conn,           \* connector object -> BaseConnector fields (timers, fetches too)
    listeners,      \* connector object -> names the service wired listeners for
    connectors,     \* DataIngestionService.connectors: name -> entry
    svc,            \* DataIngestionService fields and metrics
    restarts,       \* pending 5 second restart timers of restartConnector
    mq,             \* MessageQueue fields
    messageBuffer,  \* MessageQueue.messageBuffer: topic -> messages
    brokerLog,      \* what the external broker / store has accepted
    sends,          \* backend sends (kafka, redis) that have not settled yet
    emitted,        \* signals emitted by the last step, per emitter
    obs,            \* per connector: failures in a row, what a poll of the last step
                    \* did, since when it runs (0: stopped), the latencies' sum
    now,            \* Date.now()
    cfg,            \* the configuration the objects were constructed with
    api             \* inputs so far; the last step's API call and its result

vars == <<conn, listeners, connectors, svc, restarts, mq, messageBuffer,
          brokerLog, sends, emitted, obs, now, cfg, api>>

(***************************************************************************)
(* Bounds of the model                                                     *)
(***************************************************************************)
MaxEvents == 5      \* inputs of a run: API calls, fetches settling, clock steps,
                    \* backend replies; also the poll cycles begun (totalFetches)

Conns == {"c1", "c2"}
Names == {"mta", "traffic"}
NoConn == "none"

(***************************************************************************)
(* Program constants                                                       *)
(***************************************************************************)
DefaultMaxRetries == 3
PollInterval == 30000
CircuitBreakerTimeout == 60000
ErrorLimit == 5
StaleLimit == 300000
OneHour == 60 * 60 * 1000
OneMinute == 60 * 1000

RawData == "raw-data"
DeadLetter == "dead-letter-queue"
HealthCheckTopic == "health-check"
Topics == {RawData, DeadLetter, HealthCheckTopic}
ConfigTopics == {RawData, "processed-data", "predictions", "alerts"}

\* The clock starts late enough for "two hours ago" to be a positive time, and
\* moves in steps that cross the service's 5 minute threshold (and with it the
\* connector's 3 x pollInterval threshold).
Epoch == 3 * OneHour
TickMs == StaleLimit + 1

NullSrc == "<null>"
NullData == [isNull |-> TRUE, tsNull |-> TRUE, timestamp |-> 0, source |-> NullSrc]
Rec(ts, src) == [isNull |-> FALSE, tsNull |-> FALSE, timestamp |-> ts, source |-> src]
RecNoTs(src) == [isNull |-> FALSE, tsNull |-> TRUE, timestamp |-> 0, source |-> src]

Max(a, b) == IF a > b THEN a ELSE b

\* Numbers that are not integers (an average) are kept as reduced fractions
RECURSIVE GCD(_, _)
GCD(a, b) == IF b = 0 THEN a ELSE GCD(b, a % b)

Fraction(num, den) ==
    LET g == GCD(num, den)
    IN  IF num = 0 THEN [num |-> 0, den |-> 1]
        ELSE [num |-> num \div g, den |-> den \div g]
RemoveAt(s, i) == [j \in 1..(Len(s) - 1) |-> IF j < i THEN s[j] ELSE s[j + 1]]

(***************************************************************************)
(* The program state as one record, and back.  "rnd" holds the values the  *)
(* handler's calls of Math.random() will return, "threw" whether an        *)
(* exception is propagating, "throwing" the connectors on which a 'start'  *)
(* listener of the application throws during this step.                    *)
(***************************************************************************)
\* No message id: what a call that returns nothing leaves with its caller
NoId == [time |-> 0, rnd |-> 0]

NoneEmitted ==
    [conn |-> [c \in Conns |->
                  [data |-> 0, error |-> 0, start |-> 0, stop |-> 0,
                   circuitBreakerOpen |-> 0, circuitBreakerClosed |-> 0,
                   record |-> NullData, rejected |-> 0]],
     svc |-> [connectorError |-> 0, dataIngested |-> 0, connectorStarted |-> 0,
              connectorStopped |-> 0, connectorRegistered |-> 0,
              connectorUnregistered |-> 0, started |-> 0, stopped |-> 0],
     mq |-> [publish |-> [t \in Topics |-> 0], published |-> 0]]

World(r) ==
    [conn |-> conn, listeners |-> listeners, connectors |-> connectors,
     svc |-> svc, restarts |-> restarts, mq |-> mq,
     messageBuffer |-> messageBuffer, brokerLog |-> brokerLog, sends |-> sends,
     emitted |-> NoneEmitted,
     obs |-> [c \in Conns |-> [obs[c] EXCEPT !.lastPoll = "none", !.lastVia = "none"]],
     now |-> now, cfg |-> cfg,
     api |-> [events |-> api.events, op |-> "none", ret |-> "none", val |-> NoId],
     rnd |-> r, threw |-> FALSE, throwing |-> {}]

RECURSIVE SumPolls(_, _)
SumPolls(w, cs) ==
    IF cs = {} THEN 0
    ELSE LET c == CHOOSE x \in cs : TRUE
         IN  w.conn[c].totalFetches + SumPolls(w, cs \ {c})

TotalPolls(w) == SumPolls(w, Conns)

Bounded(w) ==
    /\ TotalPolls(w) <= w.cfg.maxEvents
    /\ w.api.events <= w.cfg.maxEvents

Apply(w) ==
    /\ Bounded(w)
    /\ conn' = w.conn
    /\ listeners' = w.listeners
    /\ connectors' = w.connectors
    /\ svc' = w.svc
    /\ restarts' = w.restarts
    /\ mq' = w.mq
    /\ messageBuffer' = w.messageBuffer
    /\ brokerLog' = w.brokerLog
    /\ sends' = w.sends
    /\ emitted' = w.emitted
    /\ obs' = w.obs
    /\ now' = w.now
    /\ cfg' = w.cfg
    /\ api' = w.api

(***************************************************************************)
(* MessageQueue                                                            *)
(***************************************************************************)
\* generateMessageId: `msg_${Date.now()}_${Math.random()...}`
generateMessageId(w) == [time |-> w.now, rnd |-> Head(w.rnd)]

Payload(kind, rec, name, messageId, error) ==
    [kind |-> kind, rec |-> rec, connector |-> name, messageId |-> messageId,
     error |-> error]

NoCont == [kind |-> "none", name |-> "", data |-> NullData]

setupMemory(w) == [w EXCEPT !.messageBuffer = [t \in ConfigTopics |-> <<>>]]

\* publishToMemory: the message is pushed on its topic's array, and a
\* setImmediate callback will hand it to the topic's subscribers.  Where
\* nothing ever subscribes (cfg.subscribers is false) the callback does nothing
\* and is left out.
publishToMemory(w, topic, messageData) ==
    LET buf == IF topic \in DOMAIN w.messageBuffer
               THEN w.messageBuffer
               ELSE [t \in (DOMAIN w.messageBuffer) \cup {topic} |->
                        IF t = topic THEN <<>> ELSE w.messageBuffer[t]]
        w1 == [w EXCEPT !.messageBuffer = [buf EXCEPT ![topic] = Append(@, messageData)]]
    IN  IF w.cfg.subscribers
        THEN [w1 EXCEPT !.mq.immediates = Append(@, messageData)]
        ELSE w1

\* publish, up to the backend call: with the memory backend the message is
\* appended at once; with a broker or store the send is handed to the client
\* library and settles later (SendSettles), when "cont" is resumed.
publish(w, topic, message, source, cont) ==
    LET messageData == [id |-> generateMessageId(w), timestamp |-> w.now,
                        topic |-> topic, data |-> message, source |-> source]
        w1 == [w EXCEPT !.rnd = Tail(@), !.emitted.mq.publish[topic] = @ + 1]
    IN  IF w.mq.type = "memory"
        THEN [publishToMemory(w1, topic, messageData)
                 EXCEPT !.emitted.mq.published = @ + 1]
        ELSE [w1 EXCEPT !.sends = Append(@, [msg |-> messageData, cont |-> cont])]

\* What healthCheck() returns with the memory backend (no await on the way)
healthCheckMemory(w) == [status |-> "healthy", connected |-> w.mq.isConnected]

close(w) == [w EXCEPT !.mq.isConnected = FALSE]

\* subscribe: this.on('message:' + topic, callback)
subscribe(w, topic, callback) == [w EXCEPT !.mq.listeners[topic] = Append(@, callback)]

\* unsubscribe: this.removeAllListeners('message:' + topic)
unsubscribe(w, topic) == [w EXCEPT !.mq.listeners[topic] = <<>>]

\* The callbacks of setImmediate run in the order of their scheduling, each
\* taking the oldest message
immediateLast(w) == [msg |-> w.mq.immediates[Len(w.mq.immediates)], rest |-> SubSeq(w.mq.immediates, 1, Len(w.mq.immediates) - 1)]

immediateNext(w) == [msg |-> Head(w.mq.immediates), rest |-> Tail(w.mq.immediates)]

\* emit('message:' + topic, messageData): the listeners are called in the
\* order of their subscription
RECURSIVE emitMessage(_, _, _)
emitMessage(w, ls, messageData) ==
    IF ls = <<>> THEN w
    ELSE emitMessage([w EXCEPT !.mq.received[Head(ls)] = Append(@, messageData)],
                     Tail(ls), messageData)

\* The callback publishToMemory gave to setImmediate
immediateCallback(w) ==
    LET n == immediateNext(w)
    IN  emitMessage([w EXCEPT !.mq.immediates = n.rest],
                    w.mq.listeners[n.msg.topic], n.msg)

(***************************************************************************)
(* DataIngestionService: the handlers of a connector's signals             *)
(***************************************************************************)
Registered(w, name) == w.connectors[name].connector # NoConn

\* validateData with the limits of the range excluded
validateDataExclusive(data, nowv) ==
    LET noTimestamp == data.tsNull \/ data.timestamp = 0
        noSource == data.source = NullSrc \/ data.source = ""
        oneHourAgo == nowv - OneHour
        oneMinuteFromNow == nowv + OneMinute
    IN  IF noTimestamp \/ noSource THEN FALSE
        ELSE IF data.timestamp <= oneHourAgo \/ data.timestamp >= oneMinuteFromNow
             THEN FALSE
             ELSE TRUE

\* validateData, on the enriched record (always an object: it is built by an
\* object spread).  !x is JavaScript's falsiness: null, 0 and "" alike.
validateData(data, nowv) ==
    LET noTimestamp == data.tsNull \/ data.timestamp = 0
        noSource == data.source = NullSrc \/ data.source = ""
        oneHourAgo == nowv - OneHour
        oneMinuteFromNow == nowv + OneMinute
    IN  IF noTimestamp \/ noSource THEN FALSE
        ELSE IF data.timestamp < oneHourAgo \/ data.timestamp > oneMinuteFromNow
             THEN FALSE
             ELSE TRUE

sendToDeadLetterQueue(w, connectorName, error, data) ==
    publish(w, DeadLetter, Payload("deadLetter", data, connectorName, NoId, error),
            "data-ingestion-service",
            [kind |-> "dead", name |-> connectorName, data |-> data])

\* handleConnectorError dead-lettering whether or not there is a record
handleConnectorErrorAlways(w, connectorName, error, data) ==
    LET w1 == IF Registered(w, connectorName)
              THEN LET n == w.connectors[connectorName].errorCount + 1
                   IN  [w EXCEPT !.connectors[connectorName].errorCount = n,
                                 !.connectors[connectorName].isHealthy =
                                     IF n > ErrorLimit THEN FALSE ELSE @]
              ELSE w
        w2 == [w1 EXCEPT !.svc.totalErrorsHandled = @ + 1]
        w3 == IF w2.cfg.deadLetterQueueEnabled
              THEN sendToDeadLetterQueue(w2, connectorName, error, data)
              ELSE w2
    IN  [w3 EXCEPT !.emitted.svc.connectorError = @ + 1]

\* handleConnectorError marking the entry one error later
handleConnectorErrorLate(w, connectorName, error, data) ==
    LET w1 == IF Registered(w, connectorName)
              THEN LET n == w.connectors[connectorName].errorCount + 1
                   IN  [w EXCEPT !.connectors[connectorName].errorCount = n,
                                 !.connectors[connectorName].isHealthy =
                                     IF n > ErrorLimit + 1 THEN FALSE ELSE @]
              ELSE w
        w2 == [w1 EXCEPT !.svc.totalErrorsHandled = @ + 1]
        w3 == IF w2.cfg.deadLetterQueueEnabled /\ ~data.isNull
              THEN sendToDeadLetterQueue(w2, connectorName, error, data)
              ELSE w2
    IN  [w3 EXCEPT !.emitted.svc.connectorError = @ + 1]

handleConnectorError(w, connectorName, error, data) ==
    LET w1 == IF Registered(w, connectorName)
              THEN LET n == w.connectors[connectorName].errorCount + 1
                   IN  [w EXCEPT !.connectors[connectorName].errorCount = n,
                                 !.connectors[connectorName].isHealthy =
                                     IF n > ErrorLimit THEN FALSE ELSE @]
              ELSE w
        w2 == [w1 EXCEPT !.svc.totalErrorsHandled = @ + 1]
        w3 == IF w2.cfg.deadLetterQueueEnabled /\ ~data.isNull
              THEN sendToDeadLetterQueue(w2, connectorName, error, data)
              ELSE w2
    IN  [w3 EXCEPT !.emitted.svc.connectorError = @ + 1]

handleConnectorData(w, connectorName, data) ==
    IF ~Registered(w, connectorName) THEN w
    ELSE LET w1 == [w EXCEPT
                       !.connectors[connectorName].lastDataReceived = w.now,
                       !.connectors[connectorName].dataCount = @ + 1,
                       !.connectors[connectorName].isHealthy = TRUE,
                       !.svc.totalDataReceived = @ + 1]
             messageId == [time |-> w.now, rnd |-> Head(w.rnd)]
             w2 == [w1 EXCEPT !.rnd = Tail(@)]
         IN  IF validateData(data, w.now)
             THEN LET w3 == publish(w2, RawData,
                                Payload("record", data, connectorName, messageId, "none"),
                                connectorName,
                                [kind |-> "raw", name |-> connectorName, data |-> data])
                  IN  IF w3.mq.type = "memory"
                      THEN [w3 EXCEPT !.emitted.svc.dataIngested = @ + 1]
                      ELSE w3
             ELSE handleConnectorError(w2, connectorName, "validation", data)

(***************************************************************************)
(* The listeners registerConnector wires to a connector, run by emit() in  *)
(* the order they were added.  emit('error') with no listener throws.      *)
(***************************************************************************)
RECURSIVE onData(_, _, _)
onData(w, names, data) ==
    IF names = <<>> THEN w
    ELSE onData(handleConnectorData(w, Head(names), data), Tail(names), data)

RECURSIVE onError(_, _)
onError(w, names) ==
    IF names = <<>> THEN w
    ELSE onError(handleConnectorError(w, Head(names), "fetch", NullData), Tail(names))

RECURSIVE onStart(_, _)
onStart(w, names) ==
    IF names = <<>> THEN w
    ELSE onStart([w EXCEPT !.svc.connectorsRunning = @ + 1,
                           !.emitted.svc.connectorStarted = @ + 1], Tail(names))

RECURSIVE onStop(_, _)
onStop(w, names) ==
    IF names = <<>> THEN w
    ELSE onStop([w EXCEPT !.svc.connectorsRunning = Max(0, @ - 1),
                          !.emitted.svc.connectorStopped = @ + 1], Tail(names))

emitData(w, c, data) ==
    onData([w EXCEPT !.emitted.conn[c].data = @ + 1, !.emitted.conn[c].record = data],
           w.listeners[c], data)

emitError(w, c) ==
    IF w.listeners[c] = <<>>
    THEN [w EXCEPT !.emitted.conn[c].error = @ + 1, !.threw = TRUE]
    ELSE onError([w EXCEPT !.emitted.conn[c].error = @ + 1], w.listeners[c])

\* emit('start'): the service's listeners, then the application's own, whose
\* exception leaves emit() and start()
emitStart(w, c) ==
    LET w1 == onStart([w EXCEPT !.emitted.conn[c].start = @ + 1], w.listeners[c])
    IN  IF c \in w.throwing THEN [w1 EXCEPT !.threw = TRUE] ELSE w1

emitStop(w, c) ==
    onStop([w EXCEPT !.emitted.conn[c].stop = @ + 1], w.listeners[c])

(***************************************************************************)
(* BaseConnector                                                           *)
(*                                                                         *)
(* timers: the connector's live poll timers in the order they were armed.  *)
(* pollTimer is the handle this.pollTimer: "null", "live" (the timer armed *)
(* last, the last of timers) or "stale" (a timer that has fired).          *)
(* circuitBreakerTimer: whether the breaker's timer is pending.            *)
(* A poll timer armed with the cool-down delay while the breaker's timer   *)
(* is pending expires after it (same duration, armed later): afterBreaker. *)
(***************************************************************************)
ClearAfterBreaker(ts) == [i \in 1..Len(ts) |-> [ts[i] EXCEPT !.afterBreaker = FALSE]]

\* schedulNextPoll always waiting for the poll interval
schedulNextPollAtInterval(w, c) ==
    LET s == w.conn[c]
        t == [delay |-> "pollInterval",
              afterBreaker |-> s.circuitBreakerOpen /\ s.circuitBreakerTimer]
    IN  IF ~s.isRunning THEN w
        ELSE [w EXCEPT !.conn[c].timers = Append(@, t),
                       !.conn[c].pollTimer = "live"]

schedulNextPoll(w, c) ==
    LET s == w.conn[c]
        delay == IF s.circuitBreakerOpen THEN "circuitBreakerTimeout" ELSE "pollInterval"
        t == [delay |-> delay,
              afterBreaker |-> s.circuitBreakerOpen /\ s.circuitBreakerTimer]
    IN  IF ~s.isRunning THEN w
        ELSE [w EXCEPT !.conn[c].timers = Append(@, t),
                       !.conn[c].pollTimer = "live"]

closeCircuitBreaker(w, c) ==
    IF ~w.conn[c].circuitBreakerOpen THEN w
    ELSE [w EXCEPT !.conn[c].circuitBreakerOpen = FALSE,
                   !.conn[c].retryCount = 0,
                   !.conn[c].circuitBreakerTimer = FALSE,
                   !.conn[c].timers = ClearAfterBreaker(@),
                   !.emitted.conn[c].circuitBreakerClosed = @ + 1]

\* openCircuitBreaker without its first line
openCircuitBreakerAgain(w, c) ==
    [w EXCEPT !.conn[c].circuitBreakerOpen = TRUE,
              !.conn[c].circuitBreakerTimer = TRUE,
              !.emitted.conn[c].circuitBreakerOpen = @ + 1]

openCircuitBreaker(w, c) ==
    IF w.conn[c].circuitBreakerOpen THEN w
    ELSE [w EXCEPT !.conn[c].circuitBreakerOpen = TRUE,
                   !.conn[c].circuitBreakerTimer = TRUE,
                   !.emitted.conn[c].circuitBreakerOpen = @ + 1]

\* updateAvgResponseTime dividing by the number of all polls
updateAvgResponseTimeAllPolls(s, newTime) ==
    LET totalFetches == s.totalFetches
        currentAvg == s.avgResponseTime
    IN  Fraction(currentAvg.num * (totalFetches - 1) + newTime * currentAvg.den,
                 currentAvg.den * totalFetches)

\* ((currentAvg * (totalFetches - 1)) + newTime) / totalFetches, where
\* totalFetches is metrics.successfulFetches, already incremented
updateAvgResponseTime(s, newTime) ==
    LET totalFetches == s.successfulFetches
        currentAvg == s.avgResponseTime
    IN  Fraction(currentAvg.num * (totalFetches - 1) + newTime * currentAvg.den,
                 currentAvg.den * totalFetches)

\* handleSuccessfulFetch leaving retryCount as it is
handleSuccessfulFetchKeepsCount(w, c, data, responseTime) ==
    LET w0 == [w EXCEPT !.conn[c].successfulFetches = @ + 1]
        w1 == [w0 EXCEPT !.conn[c].avgResponseTime =
                             updateAvgResponseTime(w0.conn[c], responseTime),
                         !.conn[c].lastSuccessTime = w.now]
        w2 == IF w1.conn[c].circuitBreakerOpen THEN closeCircuitBreaker(w1, c) ELSE w1
    IN  IF ~data.isNull THEN emitData(w2, c, data) ELSE w2

handleSuccessfulFetch(w, c, data, responseTime) ==
    LET w0 == [w EXCEPT !.conn[c].successfulFetches = @ + 1]
        w1 == [w0 EXCEPT !.conn[c].avgResponseTime =
                             updateAvgResponseTime(w0.conn[c], responseTime),
                         !.conn[c].lastSuccessTime = w.now,
                         !.conn[c].retryCount = 0]
        w2 == IF w1.conn[c].circuitBreakerOpen THEN closeCircuitBreaker(w1, c) ELSE w1
    IN  IF ~data.isNull THEN emitData(w2, c, data) ELSE w2

\* handleFailedFetch opening the breaker one failure late
handleFailedFetchLate(w, c) ==
    LET w1 == [w EXCEPT !.conn[c].failedFetches = @ + 1,
                        !.conn[c].retryCount = @ + 1]
        w2 == IF w1.conn[c].retryCount > w1.cfg.maxRetries
              THEN openCircuitBreaker(w1, c) ELSE w1
    IN  emitError(w2, c)

handleFailedFetch(w, c) ==
    LET w1 == [w EXCEPT !.conn[c].failedFetches = @ + 1,
                        !.conn[c].retryCount = @ + 1]
        w2 == IF w1.conn[c].retryCount >= w1.cfg.maxRetries
              THEN openCircuitBreaker(w1, c) ELSE w1
    IN  emitError(w2, c)

\* pollData up to its await: nothing if stopped, a skipped cycle if the
\* breaker is open, else the fetch is begun.
pollData(w, c) ==
    IF ~w.conn[c].isRunning THEN w
    ELSE LET w1 == [w EXCEPT !.conn[c].totalFetches = @ + 1]
         IN  IF w1.conn[c].circuitBreakerOpen
             THEN schedulNextPoll(w1, c)
             ELSE [w1 EXCEPT !.conn[c].inflight = @ + 1]

\* pollData from its await on: the fetch has settled.  An exception thrown in
\* the catch block (emit('error') without a listener) rejects pollData's
\* promise before schedulNextPoll is reached ("rejected": nothing handles the
\* promise, start() and the timer callback do not await it).
pollDataSettled(w, c, ok, data, responseTime) ==
    LET w0 == [w EXCEPT !.conn[c].inflight = @ - 1]
        w1 == IF ok THEN handleSuccessfulFetch(w0, c, data, responseTime)
              ELSE handleFailedFetch(w0, c)
    IN  IF w1.threw
        THEN [w1 EXCEPT !.threw = FALSE, !.emitted.conn[c].rejected = @ + 1]
        ELSE schedulNextPoll(w1, c)

start(w, c) ==
    IF w.conn[c].isRunning THEN w
    ELSE LET w1 == emitStart([w EXCEPT !.conn[c].isRunning = TRUE,
                                       !.obs[c].runningSince = w.now], c)
         IN  IF w1.threw THEN w1 ELSE pollData(w1, c)

stop(w, c) ==
    IF ~w.conn[c].isRunning THEN w
    ELSE LET s == w.conn[c]
             ts == IF s.pollTimer = "live" THEN SubSeq(s.timers, 1, Len(s.timers) - 1)
                   ELSE s.timers
         IN  emitStop([w EXCEPT !.conn[c].isRunning = FALSE,
                                !.obs[c].runningSince = 0,
                                !.conn[c].timers = ClearAfterBreaker(ts),
                                !.conn[c].pollTimer = "null",
                                !.conn[c].circuitBreakerTimer = FALSE], c)

getHealth(s, nowv, pollInterval) ==
    LET timeSinceLastSuccess == IF s.lastSuccessTime # 0 THEN nowv - s.lastSuccessTime ELSE 0
        status == IF s.circuitBreakerOpen THEN "circuit_breaker_open"
                  ELSE IF timeSinceLastSuccess # 0 /\ timeSinceLastSuccess > pollInterval * 3
                       THEN "unhealthy"
                       ELSE IF s.retryCount > 0 THEN "degraded" ELSE "healthy"
    IN  [status |-> status, isRunning |-> s.isRunning,
         circuitBreakerOpen |-> s.circuitBreakerOpen]

(***************************************************************************)
(* DataIngestionService: registry, life cycle, health checks               *)
(* svc.order is the iteration order of the connectors Map (insertion).     *)
(***************************************************************************)
NoEntry == [connector |-> NoConn, lastDataReceived |-> 0, errorCount |-> 0,
            dataCount |-> 0, isHealthy |-> FALSE]

Without(seq, x) == SelectSeq(seq, LAMBDA y : y # x)

\* registerConnector wiring its listeners before it looks the name up
registerConnectorWiresFirst(w, name, c) ==
    IF Registered(w, name)
    THEN [w EXCEPT !.listeners[c] = Append(@, name), !.threw = TRUE]
    ELSE [w EXCEPT !.listeners[c] = Append(@, name),
                   !.connectors[name] =
                       [connector |-> c, lastDataReceived |-> 0, errorCount |-> 0,
                        dataCount |-> 0, isHealthy |-> TRUE],
                   !.svc.order = Append(@, name),
                   !.svc.connectorsRegistered = @ + 1,
                   !.emitted.svc.connectorRegistered = @ + 1]

registerConnector(w, name, c) ==
    IF Registered(w, name) THEN [w EXCEPT !.threw = TRUE]
    ELSE [w EXCEPT !.listeners[c] = Append(@, name),
                   !.connectors[name] =
                       [connector |-> c, lastDataReceived |-> 0, errorCount |-> 0,
                        dataCount |-> 0, isHealthy |-> TRUE],
                   !.svc.order = Append(@, name),
                   !.svc.connectorsRegistered = @ + 1,
                   !.emitted.svc.connectorRegistered = @ + 1]

\* The entry object leaves the Map; a pending restart timer still holds it.
Detach(rs, name) ==
    [i \in 1..Len(rs) |-> IF rs[i].name = name THEN [rs[i] EXCEPT !.attached = FALSE]
                          ELSE rs[i]]

\* unregisterConnector removing the entry of a connector it leaves running
unregisterConnectorNoStop(w, name) ==
    IF ~Registered(w, name) THEN w
    ELSE [w EXCEPT !.connectors[name] = NoEntry,
                   !.svc.order = Without(@, name),
                   !.svc.connectorsRegistered = @ - 1,
                   !.restarts = Detach(@, name),
                   !.emitted.svc.connectorUnregistered = @ + 1]

unregisterConnector(w, name) ==
    IF ~Registered(w, name) THEN w
    ELSE LET c == w.connectors[name].connector
             w1 == IF w.conn[c].isRunning THEN stop(w, c) ELSE w
         IN  [w1 EXCEPT !.connectors[name] = NoEntry,
                        !.svc.order = Without(@, name),
                        !.svc.connectorsRegistered = @ - 1,
                        !.restarts = Detach(@, name),
                        !.emitted.svc.connectorUnregistered = @ + 1]

RECURSIVE startAll(_, _)
RECURSIVE startAllUntilFailure(_, _)
\* A loop over the connectors that ends at the first failure to start
startAllUntilFailure(w, names) ==
    IF names = <<>> \/ w.threw THEN [w EXCEPT !.threw = FALSE]
    ELSE LET w1 == start(w, w.connectors[Head(names)].connector)
         IN  startAllUntilFailure(
                 IF w1.threw THEN [w1 EXCEPT !.connectors[Head(names)].isHealthy = FALSE]
                 ELSE w1, Tail(names))

startAll(w, names) ==
    IF names = <<>> THEN w
    ELSE LET w1 == start(w, w.connectors[Head(names)].connector)
         IN  startAll(IF w1.threw
                      THEN [w1 EXCEPT !.threw = FALSE,
                                      !.connectors[Head(names)].isHealthy = FALSE]
                      ELSE w1, Tail(names))

RECURSIVE stopAll(_, _)
stopAll(w, names) ==
    IF names = <<>> THEN w
    ELSE stopAll(stop(w, w.connectors[Head(names)].connector), Tail(names))

\* start() of the service with its try around the loop, not inside it
serviceStartUntilFailure(w) ==
    IF w.svc.isRunning THEN w
    ELSE LET w1 == startAllUntilFailure([w EXCEPT !.svc.isRunning = TRUE], w.svc.order)
         IN  [w1 EXCEPT !.svc.healthCheckTimer = TRUE,
                        !.emitted.svc.started = @ + 1]

serviceStart(w) ==
    IF w.svc.isRunning THEN w
    ELSE LET w1 == startAll([w EXCEPT !.svc.isRunning = TRUE], w.svc.order)
         IN  [w1 EXCEPT !.svc.healthCheckTimer = TRUE,
                        !.emitted.svc.started = @ + 1]

\* stop() of the service leaving the health-check interval armed
serviceStopKeepsTimer(w) ==
    IF ~w.svc.isRunning THEN w
    ELSE LET w1 == [w EXCEPT !.svc.isRunning = FALSE]
             w2 == close(stopAll(w1, w.svc.order))
         IN  [w2 EXCEPT !.emitted.svc.stopped = @ + 1]

serviceStop(w) ==
    IF ~w.svc.isRunning THEN w
    ELSE LET w1 == [w EXCEPT !.svc.isRunning = FALSE, !.svc.healthCheckTimer = FALSE]
             w2 == close(stopAll(w1, w.svc.order))
         IN  [w2 EXCEPT !.emitted.svc.stopped = @ + 1]

restartConnector(w, name) ==
    IF ~Registered(w, name) THEN w
    ELSE LET c == w.connectors[name].connector
         IN  [stop(w, c) EXCEPT
                 !.restarts = Append(@, [connector |-> c, name |-> name, attached |-> TRUE])]

\* The restart callback without the reset of errorCount
restartCallbackKeepsCount(w, r) == [start(w, r.connector) EXCEPT !.threw = FALSE]

\* The callback of restartConnector's setTimeout(..., 5000)
restartCallback(w, r) ==
    LET w1 == start(w, r.connector)
        w2 == [w1 EXCEPT !.obs[r.connector].restartFailed = w1.threw]
    IN  IF w1.threw THEN [w2 EXCEPT !.threw = FALSE]
        ELSE IF r.attached THEN [w2 EXCEPT !.connectors[r.name].errorCount = 0]
             ELSE w2

IsUnhealthy(health, lastDataReceived, nowv) ==
    LET timeSinceLastData == IF lastDataReceived # 0 THEN nowv - lastDataReceived ELSE 0
    IN  \/ health.status = "unhealthy"
        \/ health.status = "circuit_breaker_open"
        \/ (timeSinceLastData # 0 /\ timeSinceLastData > StaleLimit)

\* The body of the health check's loop without its "recovered" branch
checkConnectorNoRecovery(w, name) ==
    LET e == w.connectors[name]
        health == getHealth(w.conn[e.connector], w.now, PollInterval)
        isUnhealthy == IsUnhealthy(health, e.lastDataReceived, w.now)
    IN  IF isUnhealthy /\ e.isHealthy
        THEN LET wu == [w EXCEPT !.connectors[name].isHealthy = FALSE]
             IN  IF w.cfg.restartUnhealthyConnectors
                 THEN restartConnector(wu, name) ELSE wu
        ELSE w

checkConnector(w, name) ==
    LET e == w.connectors[name]
        health == getHealth(w.conn[e.connector], w.now, PollInterval)
        isUnhealthy == IsUnhealthy(health, e.lastDataReceived, w.now)
        w1 == IF isUnhealthy /\ e.isHealthy
              THEN LET wu == [w EXCEPT !.connectors[name].isHealthy = FALSE]
                   IN  IF w.cfg.restartUnhealthyConnectors
                       THEN restartConnector(wu, name) ELSE wu
              ELSE w
    IN  IF ~isUnhealthy /\ ~w1.connectors[name].isHealthy
        THEN [w1 EXCEPT !.connectors[name].isHealthy = TRUE]
        ELSE w1

RECURSIVE checkAll(_, _)
checkAll(w, names) ==
    IF names = <<>> THEN w
    ELSE checkAll(checkConnector(w, Head(names)), Tail(names))

performHealthCheck(w) == checkAll(w, w.svc.order)

\* getHealth of the service, from the reply of the queue's healthCheck on
UnhealthyConnectors(w) == SelectSeq(w.svc.order, LAMBDA n : ~w.connectors[n].isHealthy)

getHealthStatus(w, connected) ==
    LET totalConnectors == Len(w.svc.order)
        unhealthy == Len(UnhealthyConnectors(w))
    IN  IF ~w.svc.isRunning \/ ~connected THEN "critical"
        ELSE IF 2 * unhealthy > totalConnectors THEN "degraded"
             ELSE IF unhealthy > 0 THEN "warning" ELSE "healthy"

\* getHealth of the service up to its await: the memory queue's healthCheck
\* answers at once, with a broker it publishes a test message first
serviceGetHealth(w) ==
    IF w.mq.type = "memory"
    THEN [w EXCEPT !.api.ret = getHealthStatus(w, healthCheckMemory(w).connected)]
    ELSE [publish(w, HealthCheckTopic,
                  Payload("test", NullData, "", NoId, "none"), "health-check",
                  [kind |-> "health", name |-> "", data |-> NullData])
             EXCEPT !.api.ret = "pending"]

\* getStatus of the service: reads only (getStats is not awaited)
serviceGetStatus(w) == w

\* setupQueue's catch block: the fallback to the memory queue
setupFailed(w) ==
    IF w.mq.type # "memory"
    THEN setupMemory([w EXCEPT !.mq.type = "memory", !.mq.setup = "failed"])
    ELSE [w EXCEPT !.mq.setup = "failed"]

setupSucceeded(w) == [w EXCEPT !.mq.isConnected = TRUE, !.mq.setup = "done"]

\* A backend send settles: the continuation of publish and of its caller
sendSettled(w, ok) ==
    LET s == Head(w.sends)
        w0 == [w EXCEPT !.sends = Tail(@)]
    IN  IF ok
        THEN LET w1 == [w0 EXCEPT !.brokerLog[s.msg.topic] = Append(@, s.msg),
                                  !.emitted.mq.published = @ + 1]
             IN  IF s.cont.kind = "raw"
                 THEN [w1 EXCEPT !.emitted.svc.dataIngested = @ + 1]
                 ELSE IF s.cont.kind = "health"
                      THEN [w1 EXCEPT !.api.op = "getHealth resolved",
                                      !.api.ret = getHealthStatus(w1, w1.mq.isConnected)]
                      ELSE w1
        ELSE IF s.cont.kind = "raw"
             THEN handleConnectorError(w0, s.cont.name, "publish", s.cont.data)
             ELSE IF s.cont.kind = "health"
                  THEN [w0 EXCEPT !.api.op = "getHealth resolved",
                                  !.api.ret = getHealthStatus(w0, FALSE)]
                  ELSE w0

(***************************************************************************)
(* Inputs                                                                  *)
(***************************************************************************)
\* Math.random(): the values it may return, and the returns of its next k calls
RandomValues == {0, 1}
DrawsFor(k, values) == [1..k -> values]
NoDraws == <<>>

\* What a fetch may resolve to: nothing, a fresh record, an old record; and,
\* for the runs that look at validation, records at and around its limits.
FetchData(nowv) ==
    {NullData, Rec(nowv - (OneHour \div 2), "mta"), Rec(nowv - 2 * OneHour, "mta")}

Offsets ==
    {0 - 2 * OneHour, 0 - OneHour - 1, 0 - OneHour, 0 - (OneHour \div 2), 0,
     OneMinute, OneMinute + 1}
Sources == {NullSrc, "", "mta"}

WideFetchData(nowv) ==
    {NullData, Rec(0, "mta"), RecNoTs("mta")}
    \cup {Rec(nowv + off, "mta") : off \in Offsets}
    \cup {Rec(nowv, src) : src \in Sources}

QueueTypes == {"memory", "kafka"}

\* The callbacks an application subscribes, and what it publishes itself
QueueHandlers == {"h1", "h2"}
AppPayloads == {"p1", "p2"}
AppTopics == {RawData, DeadLetter}
RetryLimits == {DefaultMaxRetries - 1, DefaultMaxRetries}

(***************************************************************************)
(* Observation: what the poll cycles begun in a step did                   *)
(***************************************************************************)
Observe(w0, w1, via) ==
    [w1 EXCEPT !.obs =
        [c \in Conns |->
            IF w1.conn[c].totalFetches > w0.conn[c].totalFetches
            THEN [w1.obs[c] EXCEPT
                     !.lastPoll = IF w1.conn[c].inflight > w0.conn[c].inflight
                                  THEN "fetch" ELSE "skip",
                     !.lastVia = via]
            ELSE w1.obs[c]]]

Call(w, op, ret) ==
    [w EXCEPT !.threw = FALSE,
              !.api = [events |-> @.events + 1, op |-> op, ret |-> ret, val |-> NoId]]

Input(w) == [w EXCEPT !.api.events = @ + 1]

(***************************************************************************)
(* Initial state: the objects as constructed                               *)
(***************************************************************************)
InitConn ==
    [isRunning |-> FALSE, retryCount |-> 0, circuitBreakerOpen |-> FALSE,
     circuitBreakerTimer |-> FALSE, pollTimer |-> "null", timers |-> <<>>,
     inflight |-> 0, totalFetches |-> 0, successfulFetches |-> 0,
     failedFetches |-> 0, lastSuccessTime |-> 0,
     avgResponseTime |-> [num |-> 0, den |-> 1]]

InitWith(types, retries, restartFlags, dlqFlags, names, conns, maxEvents, wide, rands, lats, subs, throwers) ==
    /\ conn = [c \in Conns |-> InitConn]
    /\ listeners = [c \in Conns |-> <<>>]
    /\ connectors = [n \in Names |-> NoEntry]
    /\ svc = [isRunning |-> FALSE, healthCheckTimer |-> FALSE, order |-> <<>>,
              connectorsRegistered |-> 0, connectorsRunning |-> 0,
              totalDataReceived |-> 0, totalErrorsHandled |-> 0]
    /\ restarts = <<>>
    /\ \E t \in types :
          /\ mq = [type |-> t, isConnected |-> (t = "memory"),
                   setup |-> IF t = "memory" THEN "done" ELSE "pending",
                   listeners |-> [x \in Topics |-> <<>>], immediates |-> <<>>,
                   received |-> [h \in QueueHandlers |-> <<>>]]
          /\ messageBuffer = IF t = "memory" THEN [x \in ConfigTopics |-> <<>>]
                             ELSE [x \in {} |-> <<>>]
    /\ brokerLog = [t \in Topics |-> <<>>]
    /\ sends = <<>>
    /\ emitted = NoneEmitted
    /\ obs = [c \in Conns |-> [failsInRow |-> 0, lastPoll |-> "none", lastVia |-> "none",
                             runningSince |-> 0, sumLatency |-> 0,
                             restartFailed |-> FALSE]]
    /\ now = Epoch
    /\ cfg \in [maxRetries : retries,
                restartUnhealthyConnectors : restartFlags,
                deadLetterQueueEnabled : dlqFlags,
                names : {names}, conns : {conns}, maxEvents : {maxEvents},
                wide : {wide}, randomValues : {rands},
                latencies : {lats}, subscribers : {subs}, startThrows : {throwers}]
    /\ api = [events |-> 0, op |-> "none", ret |-> "none", val |-> NoId]

\* The default flags, one connector name, two connector objects
Init == InitWith({"memory"}, RetryLimits, {TRUE}, {TRUE}, {"mta"}, Conns, MaxEvents, FALSE, {0}, {0}, FALSE, {})

(***************************************************************************)
(* Actions: the application's calls                                        *)
(***************************************************************************)
Register(name, c) ==
    /\ name \in cfg.names
    /\ c \in cfg.conns
    /\ LET w1 == registerConnector(World(NoDraws), name, c)
       IN  Apply(Call(w1, "registerConnector", IF w1.threw THEN "threw" ELSE "ok"))

Unregister(name) ==
    /\ name \in cfg.names
    /\ LET w0 == World(NoDraws)
       IN  Apply(Call(unregisterConnector(w0, name), "unregisterConnector",
                      IF Registered(w0, name) THEN "true" ELSE "false"))

ServiceStartWith(S) ==
    LET w0 == [World(NoDraws) EXCEPT !.throwing = S]
    IN  Apply(Call(Observe(w0, serviceStart(w0), "start"), "start", "ok"))

ServiceStart == \E S \in SUBSET cfg.startThrows : ServiceStartWith(S)

ServiceStop == Apply(Call(serviceStop(World(NoDraws)), "stop", "ok"))

ConnectorStart(c) ==
    /\ c \in cfg.conns
    /\ \E S \in SUBSET cfg.startThrows :
          LET w0 == [World(NoDraws) EXCEPT !.throwing = S]
              w1 == start(w0, c)
          IN  Apply(Call(Observe(w0, w1, "start"), "connector.start",
                         IF w1.threw THEN "threw" ELSE "ok"))

ConnectorStop(c) ==
    /\ c \in cfg.conns
    /\ Apply(Call(stop(World(NoDraws), c), "connector.stop", "ok"))

QueueHealthCheck ==
    /\ mq.type = "memory"
    /\ LET w0 == World(NoDraws)
       IN  Apply(Call(w0, "healthCheck",
                      IF healthCheckMemory(w0).connected THEN "connected"
                      ELSE "disconnected"))

\* The application's own use of the queue.  publish() has no return statement:
\* its promise resolves to undefined, which is NoId here.
Publish(topic, p) ==
    \E r \in DrawsFor(1, cfg.randomValues) :
        LET w1 == publish(World(r), topic, Payload(p, NullData, "", NoId, "none"),
                          "unknown", NoCont)
        IN  Apply([Call(w1, "publish", "undefined") EXCEPT !.api.val = NoId])

Subscribe(topic, h) == Apply(Call(subscribe(World(NoDraws), topic, h), "subscribe", "ok"))

Unsubscribe(topic) == Apply(Call(unsubscribe(World(NoDraws), topic), "unsubscribe", "ok"))

ImmediateFires ==
    /\ mq.immediates # <<>>
    /\ Apply(immediateCallback(World(NoDraws)))

GetHealth ==
    \E r \in DrawsFor(1, cfg.randomValues) :
        LET w1 == serviceGetHealth(World(r))
        IN  Apply(Call(w1, "getHealth", w1.api.ret))

GetStatus == Apply(Call(serviceGetStatus(World(NoDraws)), "getStatus", "ok"))

(***************************************************************************)
(* Actions: timers, fetches and the backend                                *)
(***************************************************************************)
PollTimerFires(c, i) ==
    /\ i \in 1..Len(conn[c].timers)
    /\ ~conn[c].timers[i].afterBreaker
    /\ \A j \in 1..(i - 1) : conn[c].timers[j].delay # conn[c].timers[i].delay
    /\ LET s == conn[c]
           w0 == [World(NoDraws) EXCEPT
                     !.conn[c].timers = RemoveAt(s.timers, i),
                     !.conn[c].pollTimer =
                         IF s.pollTimer = "live" /\ i = Len(s.timers) THEN "stale"
                         ELSE s.pollTimer]
       IN  Apply(Observe(w0, pollData(w0, c), s.timers[i].delay))

BreakerTimerFires(c) ==
    /\ conn[c].circuitBreakerTimer
    /\ LET w0 == [World(NoDraws) EXCEPT !.conn[c].circuitBreakerTimer = FALSE,
                                        !.conn[c].timers = ClearAfterBreaker(@)]
           w1 == closeCircuitBreaker(w0, c)
       IN  Apply([w1 EXCEPT !.obs[c].failsInRow = 0])

FetchSettles(c, ok, data) ==
    /\ conn[c].inflight > 0
    /\ \E r \in DrawsFor(2 * Len(listeners[c]), cfg.randomValues) :
      \E responseTime \in cfg.latencies :
          LET w1 == pollDataSettled(World(r), c, ok, data, responseTime)
          IN  Apply(Input([w1 EXCEPT
                  !.obs[c].failsInRow = IF ok THEN 0 ELSE @ + 1,
                  !.obs[c].sumLatency = IF ok THEN @ + responseTime ELSE @]))

HealthCheckFires ==
    /\ svc.healthCheckTimer
    /\ Apply(performHealthCheck(World(NoDraws)))

RestartFiresWith(S) ==
    /\ restarts # <<>>
    /\ LET w0 == [World(NoDraws) EXCEPT !.restarts = Tail(@), !.throwing = S]
       IN  Apply(Observe(w0, restartCallback(w0, Head(restarts)), "start"))

RestartFires == \E S \in SUBSET cfg.startThrows : RestartFiresWith(S)

SetupSettles(ok) ==
    /\ mq.setup = "pending"
    /\ Apply(Input(IF ok THEN setupSucceeded(World(NoDraws))
                    ELSE setupFailed(World(NoDraws))))

SendSettles(ok) ==
    /\ sends # <<>>
    /\ \E r \in DrawsFor(1, cfg.randomValues) : Apply(Input(sendSettled(World(r), ok)))

Tick == Apply(Input([World(NoDraws) EXCEPT !.now = @ + TickMs]))

\* The service, its connectors and the memory queue
NextService ==
    \/ \E n \in Names, c \in Conns : Register(n, c)
    \/ \E n \in Names : Unregister(n)
    \/ ServiceStart
    \/ ServiceStop
    \/ GetHealth
    \/ \E c \in Conns, i \in 1..MaxEvents : PollTimerFires(c, i)
    \/ \E c \in Conns : BreakerTimerFires(c)
    \/ \E c \in Conns, ok \in BOOLEAN :
          \E data \in (IF ~ok THEN {NullData}
                       ELSE IF cfg.wide THEN WideFetchData(now) ELSE FetchData(now)) :
             FetchSettles(c, ok, data)
    \/ HealthCheckFires
    \/ RestartFires
    \/ Tick

\* ... and an application that also calls the connectors' start() and stop()
Next ==
    \/ NextService
    \/ \E c \in Conns : ConnectorStart(c)
    \/ \E c \in Conns : ConnectorStop(c)

Spec == Init /\ [][Next]_vars

\* The application calls the service only
SpecService == Init /\ [][NextService]_vars

\* A broker behind the queue, which may fail to initialize and to send
InitBroker ==
    InitWith({"kafka"}, {DefaultMaxRetries}, {TRUE}, {TRUE}, {"mta"}, {"c1"}, MaxEvents, FALSE, {0}, {0}, FALSE, {})

NextBroker ==
    \/ NextService
    \/ QueueHealthCheck
    \/ GetStatus
    \/ \E ok \in BOOLEAN : SetupSettles(ok)
    \/ \E ok \in BOOLEAN : SendSettles(ok)

SpecBroker == InitBroker /\ [][NextBroker]_vars

\* Records at the limits of validation, dead-lettering on and off
InitRecords ==
    InitWith({"memory"}, {DefaultMaxRetries - 1}, {TRUE}, BOOLEAN, {"mta"}, {"c1"},
             MaxEvents - 1, TRUE, {0}, {0}, FALSE, {})

SpecRecords == InitRecords /\ [][NextService]_vars

\* One connector on its own: the application registers it (or not) and calls
\* its start() and stop()

InitConnector ==
    InitWith({"memory"}, {DefaultMaxRetries - 1}, {TRUE}, {TRUE}, {"mta"}, {"c1"},
             MaxEvents + 1, FALSE, {0}, {0}, FALSE, {})

NextConnector ==
    \/ \E n \in Names, c \in Conns : Register(n, c)
    \/ \E c \in Conns : ConnectorStart(c)
    \/ \E c \in Conns : ConnectorStop(c)
    \/ \E c \in Conns, i \in 1..MaxEvents : PollTimerFires(c, i)
    \/ \E c \in Conns : BreakerTimerFires(c)
    \/ \E c \in Conns, ok \in BOOLEAN :
          \E data \in (IF ok THEN FetchData(now) ELSE {NullData}) :
             FetchSettles(c, ok, data)
    \/ Tick

SpecConnector == InitConnector /\ [][NextConnector]_vars

\* ... whose fetches take different times
Latencies == {1, 4}

InitLatency ==
    InitWith({"memory"}, {DefaultMaxRetries - 1}, {TRUE}, {TRUE}, {"mta"}, {"c1"},
             MaxEvents, FALSE, {0}, Latencies, FALSE, {})

SpecLatency == InitLatency /\ [][NextConnector]_vars

\* Two names and two connectors in the registry
InitRegistry ==
    InitWith({"memory"}, {DefaultMaxRetries - 1}, {TRUE}, {TRUE}, Names, Conns,
             MaxEvents - 1, FALSE, {0}, {0}, FALSE, {})

SpecRegistry == InitRegistry /\ [][NextService]_vars

\* Two registered connectors delivering records, Math.random() varying
InitIds ==
    InitWith({"memory"}, {DefaultMaxRetries - 1}, {TRUE}, {TRUE}, Names, Conns,
             MaxEvents, FALSE, RandomValues, {0}, FALSE, {})

NextIds ==
    \/ \E n \in Names, c \in Conns : Register(n, c)
    \/ ServiceStart
    \/ \E c \in Conns, i \in 1..MaxEvents : PollTimerFires(c, i)
    \/ \E c \in Conns, data \in FetchData(now) : FetchSettles(c, TRUE, data)

SpecIds == InitIds /\ [][NextIds]_vars

\* The memory queue used by an application: it publishes and subscribes
InitQueue ==
    InitWith({"memory"}, {DefaultMaxRetries}, {TRUE}, {TRUE}, {"mta"}, {"c1"},
             MaxEvents - 1, FALSE, {0}, {0}, TRUE, {})

NextQueue ==
    \/ \E t \in AppTopics, p \in AppPayloads : Publish(t, p)
    \/ \E t \in AppTopics, h \in QueueHandlers : Subscribe(t, h)
    \/ \E t \in AppTopics : Unsubscribe(t)
    \/ ImmediateFires
    \/ Tick

SpecQueue == InitQueue /\ [][NextQueue]_vars

\* Two names and two connectors, the application's 'start' listener on one of
\* them throwing at times
InitStart ==
    InitWith({"memory"}, {DefaultMaxRetries - 1}, {TRUE}, {TRUE}, Names, Conns,
             MaxEvents - 1, FALSE, {0}, {0}, FALSE, {"c2"})

SpecStart == InitStart /\ [][NextService]_vars

\* One registered connector over a run long enough for more than ErrorLimit
\* errors
InitErrors ==
    InitWith({"memory"}, {DefaultMaxRetries - 1}, {TRUE}, {TRUE}, {"mta"}, {"c1"},
             MaxEvents + 3, FALSE, {0}, {0}, FALSE, {"c1"})

NextErrors ==
    \/ \E n \in Names, c \in Conns : Register(n, c)
    \/ ServiceStart
    \/ \E c \in Conns, i \in 1..MaxEvents : PollTimerFires(c, i)
    \/ \E c \in Conns : BreakerTimerFires(c)
    \/ \E c \in Conns, ok \in BOOLEAN :
          \E data \in (IF ok THEN FetchData(now) ELSE {NullData}) :
             FetchSettles(c, ok, data)
    \/ HealthCheckFires
    \/ RestartFires

SpecErrors == InitErrors /\ [][NextErrors]_vars

\* One connector stopped and started by the application while its fetches
\* are in flight, over a run long enough for a failure to find the breaker open
InitOverlap ==
    InitWith({"memory"}, {DefaultMaxRetries - 1}, {TRUE}, {TRUE}, {"mta"}, {"c1"},
             MaxEvents + 2, FALSE, {0}, {0}, FALSE, {})

NextOverlap ==
    \/ \E n \in Names, c \in Conns : Register(n, c)
    \/ \E c \in Conns : ConnectorStart(c)
    \/ \E c \in Conns : ConnectorStop(c)
    \/ \E c \in Conns, i \in 1..MaxEvents : PollTimerFires(c, i)
    \/ \E c \in Conns : BreakerTimerFires(c)
    \/ \E c \in Conns, ok \in BOOLEAN :
          \E data \in (IF ok THEN FetchData(now) ELSE {NullData}) :
             FetchSettles(c, ok, data)

SpecOverlap == InitOverlap /\ [][NextOverlap]_vars

\* Two names and two connectors registered, unregistered and registered
\* again while the service runs
InitReuse ==
    InitWith({"memory"}, {DefaultMaxRetries - 1}, {TRUE}, {TRUE}, Names, Conns,
             MaxEvents + 1, FALSE, {0}, {0}, FALSE, {})

NextReuse ==
    \/ \E n \in Names, c \in Conns : Register(n, c)
    \/ \E n \in Names : Unregister(n)
    \/ ServiceStart
    \/ \E c \in Conns, i \in 1..MaxEvents : PollTimerFires(c, i)
    \/ \E c \in Conns, ok \in BOOLEAN :
          \E data \in (IF ok THEN FetchData(now) ELSE {NullData}) :
             FetchSettles(c, ok, data)

SpecReuse == InitReuse /\ [][NextReuse]_vars

(***************************************************************************)
(* Properties                                                              *)
(***************************************************************************)
\* The poll cycles a connector has alive: fetches in flight and poll timers
PollCycles(s) == s.inflight + Len(s.timers)

\* The listeners of connector c whose name is in the registry
Handlers(c) == Len(SelectSeq(listeners[c], LAMBDA n : connectors[n].connector # NoConn))

IsRegistered(c) == \E n \in Names : connectors[n].connector = c

\* C1: once maxRetries fetches in a row have failed the breaker is open, and
\* no poll cycle begins a fetch while the breaker is open, whatever the order
\* of poll timers, breaker timer, stop() and start().
C1_BreakerStopsFetching ==
    \A c \in Conns :
        /\ obs[c].failsInRow >= cfg.maxRetries => conn[c].circuitBreakerOpen
        /\ obs[c].lastPoll = "fetch" => ~conn[c].circuitBreakerOpen

C1_Witness ==
    \E c \in Conns :
        /\ obs[c].failsInRow >= cfg.maxRetries
        /\ conn[c].circuitBreakerOpen
        /\ obs[c].lastPoll = "skip"

\* C2: every open breaker has its cool-down timer armed, so that it closes
\* when the cool-down has elapsed and never stays open forever.
C2_OpenBreakerHasTimer ==
    \A c \in Conns : conn[c].circuitBreakerOpen => conn[c].circuitBreakerTimer

\* C3: a connector never has two poll cycles alive (at most one fetch in
\* flight or one pending poll timer), the health check's restarts included.
C3_OnePollCycle ==
    \A c \in Conns : PollCycles(conn[c]) <= 1

\* C4: a fetch that settles when its connector is no longer running is
\* discarded: no data signal and no error signal is emitted for it (and so
\* the service publishes nothing for it).
C4_StoppedConnectorEmitsNothing ==
    \A c \in Conns :
        ~conn[c].isRunning =>
            /\ emitted.conn[c].data = 0
            /\ emitted.conn[c].error = 0

\* C5: with maxRetries = 3, after three failed fetches in a row and none
\* since, the poll scheduled with the cool-down delay finds the breaker closed
\* and begins a fetch.
C5_PollAfterCoolDownFetches ==
    \A c \in Conns :
        (/\ cfg.maxRetries = DefaultMaxRetries
         /\ IsRegistered(c)
         /\ conn[c].failedFetches = DefaultMaxRetries
         /\ conn[c].successfulFetches = 0
         /\ obs[c].lastVia = "circuitBreakerTimeout")
        => obs[c].lastPoll = "fetch"

\* C6: a health check that finds a healthy entry unhealthy marks it unhealthy
\* and stops its connector in the same step, with the restart timer armed;
\* when that timer fires the connector is running and polling again and the
\* entry's errorCount is 0.
C6_HealthCheckRestarts ==
    [][/\ HealthCheckFires =>
            \A n \in Names :
                (connectors[n].isHealthy /\ ~connectors'[n].isHealthy) =>
                    /\ ~conn'[connectors[n].connector].isRunning
                    /\ Len(restarts') > Len(restarts)
                    /\ \E i \in (Len(restarts) + 1)..Len(restarts') :
                          /\ restarts'[i].name = n
                          /\ restarts'[i].connector = connectors[n].connector
       /\ RestartFires =>
            LET r == Head(restarts)
            IN  /\ conn'[r.connector].isRunning
                /\ PollCycles(conn'[r.connector]) >= 1
                /\ r.attached => connectors'[r.name].errorCount = 0]_vars

C6_Witness ==
    \E c \in Conns, n \in Names :
        /\ connectors[n].connector = c
        /\ api.op = "none"
        /\ emitted.conn[c].start = 1
        /\ conn[c].isRunning
        /\ conn[c].failedFetches > 0
        /\ connectors[n].errorCount = 0

\* C7: after the configured backend has failed to initialize, healthCheck()
\* reports connected = true.
C7_FallbackReportsConnected ==
    (api.op = "healthCheck" /\ mq.setup = "failed") => api.ret = "connected"

\* C8: registerConnector with a name that is already registered throws and
\* changes nothing: registry, counters, listeners and connectors stay as
\* they were.
C8_DuplicateRegistrationRejected ==
    [][\A n \in Names, c \in Conns :
          (connectors[n].connector # NoConn /\ Register(n, c)) =>
              /\ api'.ret = "threw"
              /\ connectors' = connectors
              /\ listeners' = listeners
              /\ conn' = conn
              /\ svc' = svc
              /\ restarts' = restarts]_vars

C8_Witness ==
    /\ api.op = "registerConnector"
    /\ api.ret = "threw"
    /\ \E n \in Names :
          /\ connectors[n].connector # NoConn
          /\ conn[connectors[n].connector].isRunning
          /\ connectors[n].dataCount > 0

\* What validation accepts: timestamp and source neither null nor falsy
\* (0, ""), the timestamp in [now - 1h, now + 1min], limits included
AcceptedRecord(d, t) ==
    /\ ~d.tsNull /\ d.timestamp # 0
    /\ d.source # NullSrc /\ d.source # ""
    /\ t - OneHour <= d.timestamp /\ d.timestamp <= t + OneMinute

\* ... and what it would accept if only null were refused
NonNullRecord(d, t) ==
    /\ ~d.tsNull
    /\ d.source # NullSrc
    /\ t - OneHour <= d.timestamp /\ d.timestamp <= t + OneMinute

LastRawRecord ==
    IF RawData \in DOMAIN messageBuffer /\ messageBuffer[RawData] # <<>>
    THEN messageBuffer[RawData][Len(messageBuffer[RawData])].data.rec
    ELSE NullData

\* C9 (amended): a record emitted by a registered connector is published to
\* raw-data if and only if its timestamp and source are truthy and the
\* timestamp lies in [now - 1h, now + 1min], limits included; otherwise it is
\* not published to raw-data and, when dead-lettering is enabled, goes to the
\* dead-letter topic.
C9_PublishedIffAccepted ==
    \A c \in Conns :
        (emitted.conn[c].data > 0 /\ IsRegistered(c)) =>
            LET d == emitted.conn[c].record
            IN  IF AcceptedRecord(d, now)
                THEN /\ emitted.mq.publish[RawData] = Handlers(c)
                     /\ emitted.mq.publish[DeadLetter] = 0
                     /\ LastRawRecord = d
                ELSE /\ emitted.mq.publish[RawData] = 0
                     /\ emitted.mq.publish[DeadLetter] =
                            IF cfg.deadLetterQueueEnabled THEN Handlers(c) ELSE 0

C9_Witness ==
    \E c \in Conns :
        /\ emitted.conn[c].data > 0
        /\ IsRegistered(c)
        /\ emitted.conn[c].record.timestamp = now - OneHour
        /\ emitted.mq.publish[RawData] = 1
        /\ LastRawRecord = emitted.conn[c].record

\* C9 as stated: published to raw-data if and only if timestamp and source
\* are non-null and the timestamp is in range, otherwise dead-lettered.
C9_PublishedIffNonNull ==
    \A c \in Conns :
        (emitted.conn[c].data > 0 /\ IsRegistered(c) /\ cfg.deadLetterQueueEnabled) =>
            LET d == emitted.conn[c].record
            IN  IF NonNullRecord(d, now)
                THEN /\ emitted.mq.publish[RawData] = Handlers(c)
                     /\ emitted.mq.publish[DeadLetter] = 0
                ELSE /\ emitted.mq.publish[RawData] = 0
                     /\ emitted.mq.publish[DeadLetter] = Handlers(c)

C11_DoubleStartRaises ==
    [][\A c \in Conns :
          (conn[c].isRunning /\ ConnectorStart(c)) =>
              /\ api'.ret = "threw"
              /\ conn' = conn
              /\ emitted'.conn[c].start = 0]_vars

\* C12: stop() on a connector that is not running changes nothing and emits
\* no stop signal; on a running connector it sets isRunning = false and leaves
\* no poll timer and no breaker timer pending.
C12_StopLeavesNothingPending ==
    [][\A c \in Conns :
          ConnectorStop(c) =>
              IF conn[c].isRunning
              THEN /\ ~conn'[c].isRunning
                   /\ conn'[c].timers = <<>>
                   /\ ~conn'[c].circuitBreakerTimer
              ELSE /\ conn' = conn
                   /\ emitted'.conn[c].stop = 0]_vars

\* The status C13 describes, for connector fields s running since "since"
\* (0: not running)
DescribedHealth(s, since, nowv) ==
    IF s.circuitBreakerOpen THEN "circuit_breaker_open"
    ELSE IF \/ (s.lastSuccessTime # 0 /\ nowv - s.lastSuccessTime > 3 * PollInterval)
            \/ (s.lastSuccessTime = 0 /\ since # 0 /\ nowv - since >= 3 * PollInterval)
         THEN "unhealthy"
         ELSE IF s.retryCount > 0 THEN "degraded" ELSE "healthy"

\* C13: getHealth() is circuit_breaker_open if the breaker is open; else
\* unhealthy if the last success is more than 3 x pollInterval ago, or if there
\* was no success yet and the connector has run for 3 x pollInterval; else
\* degraded if retryCount > 0; else healthy.
C13_HealthAsDescribed ==
    \A c \in Conns :
        getHealth(conn[c], now, PollInterval).status
            = DescribedHealth(conn[c], obs[c].runningSince, now)

\* C14: a fetch that succeeds while the breaker is closed sets retryCount
\* to 0, whatever it was, and lastSuccessTime to the current time.
C14_SuccessResetsRetryCount ==
    [][\A c \in Conns, data \in FetchData(now) :
          (~conn[c].circuitBreakerOpen /\ FetchSettles(c, TRUE, data)) =>
              /\ conn'[c].retryCount = 0
              /\ conn'[c].lastSuccessTime = now'
              /\ conn'[c].successfulFetches = conn[c].successfulFetches + 1]_vars

C14_Witness ==
    \E c \in Conns :
        /\ conn[c].failedFetches > 0
        /\ ~conn[c].circuitBreakerOpen
        /\ obs[c].failsInRow = 0
        /\ conn[c].retryCount = 0
        /\ conn[c].successfulFetches > 0
        /\ conn[c].lastSuccessTime = now
        /\ now > Epoch
        /\ emitted.conn[c].circuitBreakerClosed = 0
        /\ conn[c].inflight = 0
        /\ conn[c].failedFetches < cfg.maxRetries

\* C15: after N >= 1 successful fetches avgResponseTime is the arithmetic
\* mean of their response times, whatever failed fetches and skipped polls
\* came in between.
C15_AverageIsMean ==
    \A c \in Conns :
        LET avg == conn[c].avgResponseTime
        IN  /\ avg.den > 0
            /\ avg.num * conn[c].successfulFetches = obs[c].sumLatency * avg.den
            /\ conn[c].successfulFetches = 0 => avg.num = 0

C15_Witness ==
    \E c \in Conns :
        /\ conn[c].successfulFetches = 2
        /\ conn[c].failedFetches > 0
        /\ conn[c].avgResponseTime = [num |-> 5, den |-> 2]

\* C16: two records enriched by the service never carry the same
\* ingestion.messageId; stated here for records of two different connectors.
C16_MessageIdsDiffer ==
    \A i, j \in 1..Len(messageBuffer[RawData]) :
        LET a == messageBuffer[RawData][i].data
            b == messageBuffer[RawData][j].data
        IN  a.connector # b.connector => a.messageId # b.messageId

C18_UnregisterRemovesOneEntry ==
    [][\A n \in Names :
          Unregister(n) =>
              IF connectors[n].connector = NoConn
              THEN /\ api'.ret = "false"
                   /\ conn' = conn /\ connectors' = connectors /\ svc' = svc
                   /\ mq' = mq /\ listeners' = listeners /\ restarts' = restarts
                   /\ messageBuffer' = messageBuffer /\ emitted' = NoneEmitted
              ELSE /\ api'.ret = "true"
                   /\ ~conn'[connectors[n].connector].isRunning
                   /\ connectors'[n] = NoEntry
                   /\ \A i \in 1..Len(svc'.order) : svc'.order[i] # n
                   /\ \A m \in Names \ {n} : connectors'[m] = connectors[m]]_vars

C18_Witness ==
    /\ api.op = "unregisterConnector"
    /\ api.ret = "true"
    /\ \E c \in Conns : emitted.conn[c].stop = 1
    /\ \E m \in Names : connectors[m].connector # NoConn
    /\ \E n \in Names : connectors[n].connector = NoConn

\* The status C19 describes
DescribedStatus ==
    LET entries == {n \in Names : connectors[n].connector # NoConn}
        unhealthy == {n \in entries : ~connectors[n].isHealthy}
    IN  IF ~svc.isRunning \/ ~mq.isConnected THEN "critical"
        ELSE IF 2 * Cardinality(unhealthy) > Cardinality(entries) THEN "degraded"
             ELSE IF unhealthy # {} THEN "warning" ELSE "healthy"

\* C19: getHealth() of the service is critical if the service is not running
\* or the queue reports disconnected, else degraded if more than half of the
\* entries are unhealthy, else warning if any is, else healthy; and with the
\* memory queue configured and the service running it is never critical.
C19_ServiceHealth ==
    api.op = "getHealth" =>
        /\ api.ret = DescribedStatus
        /\ svc.isRunning => api.ret # "critical"

\* C20: getStatus() and getHealth() of the service only read: with any queue
\* backend they change no service, registry, connector or queue state,
\* publish no message and emit no signal.
C20_ReadsArePure ==
    [][(GetHealth \/ GetStatus) =>
          /\ conn' = conn /\ connectors' = connectors /\ svc' = svc
          /\ listeners' = listeners /\ restarts' = restarts
          /\ mq' = mq /\ messageBuffer' = messageBuffer
          /\ brokerLog' = brokerLog /\ sends' = sends
          /\ emitted' = NoneEmitted]_vars

\* Sequence a can be laid along sequence b without going backwards
RECURSIVE InOrderOf(_, _)
InOrderOf(a, b) ==
    IF a = <<>> THEN TRUE
    ELSE IF b = <<>> THEN FALSE
    ELSE IF Head(a) = Head(b) THEN InOrderOf(Tail(a), b)
    ELSE InOrderOf(a, Tail(b))

IsPrefix(a, b) == Len(a) <= Len(b) /\ SubSeq(b, 1, Len(a)) = a

OnTopic(ms, t) == SelectSeq(ms, LAMBDA m : m.topic = t)

\* C21: with the memory backend a published message is appended to the
\* sequence of its topic and no message ever leaves a sequence; the step that
\* publishes hands nothing to a subscriber (delivery is a later callback); and
\* what a subscribed callback has received on a topic is in the order of
\* publishing.
C21_MemoryQueueDelivery ==
    [][/\ \A t \in DOMAIN messageBuffer :
             /\ t \in DOMAIN messageBuffer'
             /\ IsPrefix(messageBuffer[t], messageBuffer'[t])
       /\ \A t \in AppTopics :
             emitted'.mq.publish[t] > 0 =>
                /\ mq'.received = mq.received
                /\ t \in DOMAIN messageBuffer'
                /\ Len(messageBuffer'[t]) =
                      (IF t \in DOMAIN messageBuffer THEN Len(messageBuffer[t]) ELSE 0) + 1
                /\ mq'.immediates = Append(mq.immediates, messageBuffer'[t][Len(messageBuffer'[t])])
       /\ \A h \in QueueHandlers, t \in DOMAIN messageBuffer' :
             InOrderOf(OnTopic(mq'.received[h], t), messageBuffer'[t])]_vars

C21_Witness ==
    \E h \in QueueHandlers :
        /\ Len(mq.received[h]) >= 2
        /\ mq.received[h][1].topic = mq.received[h][2].topic
        /\ mq.received[h][1] # mq.received[h][2]
        /\ mq.immediates # <<>>

\* C22: a publish call that succeeds has put the payload in an envelope with
\* an id, the time and the topic, and has returned that id to its caller.
C22_PublishReturnsId ==
    \A t \in AppTopics :
        (api.op = "publish" /\ api.ret # "threw" /\ emitted.mq.publish[t] > 0) =>
            /\ t \in DOMAIN messageBuffer
            /\ messageBuffer[t] # <<>>
            /\ LET m == messageBuffer[t][Len(messageBuffer[t])]
               IN  /\ m.topic = t
                   /\ m.timestamp = now
                   /\ m.data.kind \in AppPayloads
                   /\ m.id.time = now
                   /\ api.val = m.id

\* The first name in the registry's order that holds connector c
FirstNameOf(c) ==
    LET is == {i \in 1..Len(svc.order) : connectors[svc.order[i]].connector = c}
    IN  svc.order[CHOOSE i \in is : \A j \in is : i <= j]

\* C23: start() of a running service changes nothing; otherwise every
\* registered connector is started, a connector whose start fails has its
\* entry (and only that entry) marked unhealthy while the others are started
\* all the same, and the health-check timer is armed afterwards.
C23_ServiceStartContainsFailures ==
    [][\A S \in SUBSET Conns :
          ServiceStartWith(S) =>
             IF svc.isRunning
             THEN /\ conn' = conn /\ connectors' = connectors /\ svc' = svc
                  /\ emitted'.svc.started = 0
             ELSE /\ svc'.isRunning /\ svc'.healthCheckTimer
                  /\ emitted'.svc.started = 1
                  /\ \A n \in Names :
                        connectors[n].connector # NoConn =>
                           LET c == connectors[n].connector
                               fails == c \in S /\ ~conn[c].isRunning /\ n = FirstNameOf(c)
                           IN  /\ conn'[c].isRunning
                               /\ connectors'[n].isHealthy = (connectors[n].isHealthy /\ ~fails)
                               /\ (c \notin S /\ ~conn[c].isRunning) => conn'[c].inflight > 0]_vars

C23_Witness ==
    /\ api.op = "start"
    /\ emitted.svc.started = 1
    /\ Len(svc.order) = 2
    /\ ~connectors[svc.order[1]].isHealthy
    /\ connectors[svc.order[1]].connector = "c2"
    /\ emitted.conn["c2"].start = 1
    /\ conn["c2"].inflight = 0
    /\ connectors[svc.order[2]].connector = "c1"
    /\ connectors[svc.order[2]].isHealthy
    /\ conn["c1"].inflight > 0

\* C24: a connector that has just been started again (stop() then start(), by
\* the application or by the service's restart) begins from reset counters:
\* no consecutive failures, the breaker closed, the metrics at zero but for
\* the poll that start() itself begins.
C24_RestartResetsCounters ==
    \A c \in Conns :
        obs[c].lastVia = "start" =>
            /\ conn[c].retryCount = 0
            /\ ~conn[c].circuitBreakerOpen
            /\ conn[c].successfulFetches = 0
            /\ conn[c].failedFetches = 0
            /\ conn[c].totalFetches = 1

\* C25: a failed fetch comes out as the error signal only: the poll cycle
\* does not end in an exception (its promise is not rejected), and a connector
\* that is still running has its next poll scheduled.
C25_FailureStaysInPollCycle ==
    \A c \in Conns :
        emitted.conn[c].error > 0 =>
            /\ emitted.conn[c].rejected = 0
            /\ conn[c].isRunning => Len(conn[c].timers) >= 1

\* The rule of the health check as described: the connector reports
\* unhealthy or circuit_breaker_open, or data was received and the last of it
\* more than five minutes ago
JudgedUnhealthy(n) ==
    LET status == getHealth(conn[connectors[n].connector], now, PollInterval).status
    IN  \/ status \in {"unhealthy", "circuit_breaker_open"}
        \/ (connectors[n].lastDataReceived # 0
               /\ now - connectors[n].lastDataReceived > 5 * OneMinute)

\* C26: after a health-check cycle every registered entry has isHealthy =
\* false if it was judged unhealthy by that rule and isHealthy = true if not.
C26_HealthCheckJudgement ==
    [][HealthCheckFires =>
          \A n \in Names :
              connectors[n].connector # NoConn =>
                  connectors'[n].isHealthy = ~JudgedUnhealthy(n)]_vars

C26_Witness ==
    \E n \in Names :
        /\ connectors[n].connector # NoConn
        /\ ~connectors[n].isHealthy
        /\ restarts # <<>>
        /\ connectors[n].lastDataReceived # 0
        /\ ~conn[connectors[n].connector].circuitBreakerOpen
        /\ JudgedUnhealthy(n)

\* The restarts of entry n that wait for their timer
PendingRestarts(rs, n) == Len(SelectSeq(rs, LAMBDA r : r.name = n /\ r.attached))

\* C27: when the last restart of an entry's connector has failed and no
\* restart is pending, the next health-check cycle restarts the connector
\* again if it still judges it unhealthy, and does not restart it otherwise.
C27_FailedRestartIsRepeated ==
    [][HealthCheckFires =>
          \A n \in Names :
              (/\ connectors[n].connector # NoConn
               /\ obs[connectors[n].connector].restartFailed
               /\ PendingRestarts(restarts, n) = 0) =>
                  PendingRestarts(restarts', n) = (IF JudgedUnhealthy(n) THEN 1 ELSE 0)]_vars

\* C28: in every step the errorCount of a registered entry grows by the
\* number of errors handled for it in that step (one per error signal,
\* validation failure or publish failure), an entry whose count is above 5
\* after such an increment is marked unhealthy, and the count goes back to 0
\* only in the restart callback whose start() has completed.
C28_ErrorCountPerError ==
    [][\A n \in Names :
          (connectors[n].connector # NoConn /\ connectors'[n].connector # NoConn) =>
             LET c == connectors[n].connector
                 handled == emitted'.svc.connectorError
             IN  /\ handled <= 1
                 /\ \/ connectors'[n].errorCount = connectors[n].errorCount + handled
                    \/ /\ connectors'[n].errorCount = 0
                       /\ handled = 0
                       /\ RestartFires
                       /\ emitted'.conn[c].start = 1
                       /\ ~obs'[c].restartFailed
                 /\ (handled > 0 /\ connectors'[n].errorCount > 5) =>
                       ~connectors'[n].isHealthy]_vars

C28_Witness ==
    /\ connectors["mta"].errorCount = 6
    /\ emitted.svc.connectorError = 1
    /\ ~connectors["mta"].isHealthy

C28_WitnessReset ==
    /\ connectors["mta"].connector # NoConn
    /\ connectors["mta"].errorCount = 0
    /\ svc.totalErrorsHandled > 0
    /\ emitted.conn["c1"].start = 1

\* The delay of the poll timer armed last
LastDelay(s) == s.timers[Len(s.timers)].delay

\* C29: a poll cycle begun while the breaker is open fetches nothing and, if
\* the connector runs, arms the next cycle after the cool-down time; a fetch
\* that fails arms it after the poll interval if the breaker is closed
\* afterwards and after the cool-down time if the failure has opened the
\* breaker; a fetch that succeeds arms it after the poll interval.
C29_ScheduleDelays ==
    [][\A c \in Conns :
          /\ (obs'[c].lastPoll # "none" /\ conn[c].circuitBreakerOpen) =>
                /\ obs'[c].lastPoll = "skip"
                /\ conn'[c].inflight = conn[c].inflight
                /\ conn'[c].isRunning =>
                      /\ conn'[c].timers # <<>>
                      /\ conn'[c].pollTimer = "live"
                      /\ LastDelay(conn'[c]) = "circuitBreakerTimeout"
          /\ \A ok \in BOOLEAN, data \in FetchData(now) \cup {NullData} :
                (FetchSettles(c, ok, data) /\ conn'[c].isRunning) =>
                   /\ Len(conn'[c].timers) = Len(conn[c].timers) + 1
                   /\ conn'[c].pollTimer = "live"
                   /\ ok => LastDelay(conn'[c]) = "pollInterval"
                   /\ (~ok /\ ~conn'[c].circuitBreakerOpen) =>
                         LastDelay(conn'[c]) = "pollInterval"
                   /\ (~ok /\ ~conn[c].circuitBreakerOpen /\ conn'[c].circuitBreakerOpen) =>
                         LastDelay(conn'[c]) = "circuitBreakerTimeout"]_vars

C29_Witness ==
    \E c \in Conns :
        /\ emitted.conn[c].error = 1
        /\ emitted.conn[c].circuitBreakerOpen = 1
        /\ conn[c].isRunning
        /\ conn[c].timers # <<>>
        /\ LastDelay(conn[c]) = "circuitBreakerTimeout"

\* C30: a step emits the breaker-opened signal exactly when it takes the
\* breaker from closed to open and the breaker-closed signal exactly when it
\* takes it from open to closed (the breaker starts closed, so the signals
\* alternate, opened first); a failure while the breaker is open emits no
\* opened signal and leaves the breaker's timer as it was.
C30_BreakerSignalsAlternate ==
    [][\A c \in Conns :
          LET opened == emitted'.conn[c].circuitBreakerOpen
              closed == emitted'.conn[c].circuitBreakerClosed
          IN  /\ opened + closed <= 1
              /\ opened = 1 <=> (~conn[c].circuitBreakerOpen /\ conn'[c].circuitBreakerOpen)
              /\ closed = 1 <=> (conn[c].circuitBreakerOpen /\ ~conn'[c].circuitBreakerOpen)
              /\ opened = 1 => conn'[c].circuitBreakerTimer
              /\ (emitted'.conn[c].error > 0 /\ conn[c].circuitBreakerOpen) =>
                    /\ opened = 0
                    /\ conn'[c].circuitBreakerOpen
                    /\ conn'[c].circuitBreakerTimer = conn[c].circuitBreakerTimer]_vars

C30_Witness ==
    \E c \in Conns :
        /\ emitted.conn[c].error = 1
        /\ emitted.conn[c].circuitBreakerOpen = 0
        /\ conn[c].circuitBreakerOpen
        /\ conn[c].retryCount > cfg.maxRetries

\* A step that is an event of connector a alone: one of its timers fires, one
\* of its fetches settles, or the restart callback starts it
EventOf(a) ==
    \/ \E i \in 1..MaxEvents : PollTimerFires(a, i)
    \/ BreakerTimerFires(a)
    \/ \E ok \in BOOLEAN, data \in FetchData(now) \cup {NullData} : FetchSettles(a, ok, data)
    \/ (restarts # <<>> /\ Head(restarts).connector = a /\ RestartFires)

\* C31: with connectors a and b both registered, an event of a changes
\* neither b's runtime state (its poll timers included) nor the registry
\* entry of b.
C31_EventsOfOneLeaveOther ==
    [][\A a \in Conns, b \in Conns :
          (a # b /\ IsRegistered(a) /\ IsRegistered(b) /\ EventOf(a)) =>
             /\ conn'[b] = conn[b]
             /\ \A n \in Names :
                   connectors[n].connector = b => connectors'[n] = connectors[n]]_vars

\* C32: a running connector whose breaker is open has the breaker's timer
\* pending (so the breaker closes and a fetch is made again), also after a
\* stop() and start() while the breaker was open.
C32_RunningOpenBreakerHasTimer ==
    \A c \in Conns :
        (conn[c].isRunning /\ conn[c].circuitBreakerOpen) => conn[c].circuitBreakerTimer

\* C33: the callback of a restart that was scheduled before its connector was
\* unregistered, or that fires while the service is stopped, does not bring
\* the connector back to running.
C33_NoStartAfterUnregisterOrStop ==
    [][(restarts # <<>> /\ RestartFires) =>
          LET r == Head(restarts)
          IN  (~conn[r.connector].isRunning /\ (~r.attached \/ ~svc.isRunning)) =>
                 ~conn'[r.connector].isRunning]_vars

\* C34: a running connector always has a poll cycle alive: a fetch in flight
\* or a poll timer pending.
C34_RunningConnectorPolls ==
    \A c \in Conns : conn[c].isRunning => PollCycles(conn[c]) >= 1

\* The messages a topic holds, in the memory buffer and at the broker
Stored(t) ==
    (IF t \in DOMAIN messageBuffer THEN Len(messageBuffer[t]) ELSE 0) + Len(brokerLog[t])

\* The sends of records and of dead-letter entries that have not settled yet
PendingSends == Len(SelectSeq(sends, LAMBDA x : x.cont.kind \in {"raw", "dead"}))

\* C35: with dead-lettering enabled every record received from a registered
\* connector is in exactly one place: on the raw-data topic, on the
\* dead-letter topic, or in a send that has not settled yet.
C35_RecordEndsInOnePlace ==
    cfg.deadLetterQueueEnabled =>
        Stored(RawData) + Stored(DeadLetter) + PendingSends = svc.totalDataReceived

\* C36: the count of consecutive failures never exceeds the limit that opens
\* the breaker.
C36_RetryCountBounded ==
    \A c \in Conns : conn[c].retryCount <= cfg.maxRetries

\* C37: when no fetch is in flight, the attempts counted (totalFetches) are
\* the successes plus the failures: polls skipped with the breaker open are
\* not counted as attempts.
C37_AttemptsAreFetches ==
    \A c \in Conns :
        conn[c].inflight = 0 =>
            conn[c].totalFetches = conn[c].successfulFetches + conn[c].failedFetches

\* C38: the signals of a connector that was registered and is not registered
\* any more (a fetch of it settling, one of its timers, a start of it) change
\* no registry entry and not the count of running connectors.
C38_UnregisteredConnectorIsInert ==
    [][\A c \in Conns :
          (listeners[c] # <<>> /\ ~IsRegistered(c) /\ EventOf(c)) =>
             /\ connectors' = connectors
             /\ svc'.connectorsRunning = svc.connectorsRunning]_vars

\* The registry entries whose connector is running
RunningEntries == {n \in Names : connectors[n].connector # NoConn /\ conn[connectors[n].connector].isRunning}

\* C39: the service's count of running connectors is the number of registry
\* entries whose connector is running, and the count of registered connectors
\* is the size of the registry.
C39_RunningCountMatches ==
    /\ svc.connectorsRunning = Cardinality(RunningEntries)
    /\ svc.connectorsRegistered = Len(svc.order)
    /\ svc.connectorsRunning <= svc.connectorsRegistered

====
